---- MODULE Spec2Model ----
(***************************************************************************)
(* Model of the DCF worker's valuation engine (workers/dcf/app.py):        *)
(* _pct, _scenario_defaults, _project_cash_flows and the dcf handler.      *)
(*                                                                         *)
(* Python floats are modelled as decimal floating-point numbers            *)
(* [m |-> mantissa, e |-> exponent] of value m * 10^e, with at most Digits *)
(* significant digits, every operation correctly rounded (round half to    *)
(* even) and an unbounded exponent.  The canonical form has no trailing    *)
(* zero in the mantissa; zero is [m |-> 0, e |-> 0].                       *)
(***************************************************************************)
EXTENDS Integers, Sequences, FiniteSets, TLC

\* Significant decimal digits kept by a float of the model (at most 8).
Digits == 7

\* Longest request horizon and longest override horizon explored.
MaxHorizon == 3

(***************************************************************************)
(* Strict evaluation: the value of F at the value of e (of e1 and e2).     *)
(* The operand is evaluated once and F reads its value, as an assignment   *)
(* to a local does in the program.                                         *)
(***************************************************************************)
Bind(e, F(_)) == CHOOSE res \in {F(v) : v \in {e}} : TRUE

Bind2(e1, e2, F(_, _)) ==
  CHOOSE res \in {F(v, w) : v \in {e1}, w \in {e2}} : TRUE

(***************************************************************************)
(* Decimal floating point                                                  *)
(***************************************************************************)
Pow10(k) == <<1, 10, 100, 1000, 10000, 100000, 1000000, 10000000,
              100000000, 1000000000>>[k + 1]

Abs(i) == IF i < 0 THEN -i ELSE i

Sgn(i) == IF i < 0 THEN -1 ELSE IF i = 0 THEN 0 ELSE 1

\* Number of decimal digits of a natural below 2^31 (0 has none).
NumDigits(n) ==
  Bind(n, LAMBDA q:
    IF q = 0 THEN 0
    ELSE IF q < 10 THEN 1
    ELSE IF q < 100 THEN 2
    ELSE IF q < 1000 THEN 3
    ELSE IF q < 10000 THEN 4
    ELSE IF q < 100000 THEN 5
    ELSE IF q < 1000000 THEN 6
    ELSE IF q < 10000000 THEN 7
    ELSE IF q < 100000000 THEN 8
    ELSE IF q < 1000000000 THEN 9
    ELSE 10)

Zero == [m |-> 0, e |-> 0]

One == [m |-> 1, e |-> 0]

RECURSIVE Strip(_, _, _)
\* Canonical form of sign * q * 10^e, q a natural: trailing zeros of q are
\* moved to the exponent.
Strip(sign, q, e) ==
  IF q = 0 THEN Zero
  ELSE IF q % 10 = 0
    THEN Bind2(q \div 10, e + 1, LAMBDA q1, e1: Strip(sign, q1, e1))
    ELSE [m |-> sign * q, e |-> e]

\* sign * (n + f) * 10^e rounded to Digits digits, half to even, where n is
\* a natural and 0 < f < 1 exactly when sticky.
RoundTo(sign, n, sticky, e) ==
  Bind(n, LAMBDA q:
    Bind(NumDigits(q) - Digits, LAMBDA k:
      IF k <= 0 THEN Strip(sign, q, e)
      ELSE
        Bind2(q \div Pow10(k), q % Pow10(k), LAMBDA kept, rem:
          LET half == 5 * Pow10(k - 1)
              up   == \/ rem > half
                      \/ rem = half /\ sticky
                      \/ rem = half /\ ~sticky /\ kept % 2 = 1
          IN Strip(sign, IF up THEN kept + 1 ELSE kept, e + k))))

\* The float nearest to m * 10^e.
Flt(m, e) == RoundTo(Sgn(m), Abs(m), FALSE, e)

Neg(a) == Bind(a, LAMBDA x: [m |-> -x.m, e |-> x.e])

\* a * b: the exact product of the mantissas, held in two limbs, rounded.
Mul(a, b) ==
  Bind2(a, b, LAMBDA fa, fb:
    LET B  == 10000
        x  == Abs(fa.m)
        y  == Abs(fb.m)
        x1 == x \div B
        x0 == x % B
        y1 == y \div B
        y0 == y % B
        s  == Sgn(fa.m) * Sgn(fb.m)
        e  == fa.e + fb.e
    IN Bind(x1 * y0 + x0 * y1, LAMBDA mid:
         Bind((mid % B) * B + x0 * y0, LAMBDA low:
           Bind2(x1 * y1 + mid \div B + low \div 100000000,
                 low % 100000000, LAMBDA H, L:
             Bind(NumDigits(H), LAMBDA n:
               RoundTo(s,
                       IF H = 0 THEN L
                       ELSE H * Pow10(9 - n) + L \div Pow10(n - 1),
                       IF H = 0 THEN FALSE ELSE L % Pow10(n - 1) # 0,
                       IF H = 0 THEN e ELSE e + n - 1))))))

RECURSIVE LongDiv(_, _, _, _, _)
\* Long division: q the digits so far, r the remainder, d the divisor, e the
\* exponent of the last digit of q.
LongDiv(sign, q, r, d, e) ==
  IF r = 0 \/ NumDigits(q) > Digits
    THEN RoundTo(sign, q, r # 0, e)
    ELSE Bind2(q * 10 + (r * 10) \div d, (r * 10) % d, LAMBDA q1, r1:
           Bind(e - 1, LAMBDA e1: LongDiv(sign, q1, r1, d, e1)))

\* a / b for b # 0.
Div(a, b) ==
  Bind2(a, b, LAMBDA fa, fb:
    Bind2(Abs(fa.m), Abs(fb.m), LAMBDA x, y:
      IF x = 0 THEN Zero
      ELSE Bind2(x \div y, x % y, LAMBDA q, r:
             Bind2(Sgn(fa.m) * Sgn(fb.m), fa.e - fb.e, LAMBDA s, e:
               LongDiv(s, q, r, y, e)))))

\* a + b for a.e >= b.e, neither zero: a is scaled up to nine digits and the
\* digits of b below its last place are folded into a sticky flag.
AddOrdered(hi, lo) ==
  Bind2(hi, lo, LAMBDA a, b:
  Bind2(Abs(a.m), Abs(b.m), LAMBDA x, y:
    Bind2(a.e - b.e, 9 - NumDigits(x), LAMBDA diff, room:
      Bind(IF diff < room THEN diff ELSE room, LAMBDA s:
        Bind2(x * Pow10(s), diff - s, LAMBDA A, drop:
          Bind2(IF drop > 9 THEN 0 ELSE y \div Pow10(drop),
                IF drop > 9 THEN TRUE ELSE y % Pow10(drop) # 0,
                LAMBDA yk, lost:
            LET same == Sgn(a.m) = Sgn(b.m)
            IN RoundTo(IF same \/ lost \/ A >= yk THEN Sgn(a.m)
                       ELSE Sgn(b.m),
                       IF same THEN A + yk
                       ELSE IF lost THEN A - yk - 1
                       ELSE IF A >= yk THEN A - yk
                       ELSE yk - A,
                       lost,
                       a.e - s)))))))

Add(a, b) ==
  Bind2(a, b, LAMBDA fa, fb:
    IF fa.m = 0 THEN fb
    ELSE IF fb.m = 0 THEN fa
    ELSE AddOrdered(IF fa.e >= fb.e THEN fa ELSE fb,
                    IF fa.e >= fb.e THEN fb ELSE fa))

Sub(a, b) == Add(a, Neg(b))

Lt(a, b) == Sub(a, b).m < 0

Le(a, b) == Sub(a, b).m <= 0

\* max(a, b) and min(a, b) of Python: a unless b is beyond it.
Max(a, b) == Bind2(a, b, LAMBDA fa, fb: IF Lt(fa, fb) THEN fb ELSE fa)

Min(a, b) == Bind2(a, b, LAMBDA fa, fb: IF Lt(fb, fa) THEN fb ELSE fa)

RECURSIVE Pow(_, _)
\* x ** n for an integer n >= 0, as the product x * x * ... * x.
Pow(x, n) == IF n <= 0 THEN One ELSE Mul(Pow(x, n - 1), x)

\* int -> float
FromInt(i) == Flt(i, 0)

\* round(x, 2): to the nearest hundredth, half to even.
Round2(a) ==
  Bind(a, LAMBDA x:
    IF x.e >= -2 THEN x
    ELSE
      Bind(-2 - x.e, LAMBDA k:
        IF k > 9 THEN Zero
        ELSE
          Bind2(Abs(x.m) \div Pow10(k), Abs(x.m) % Pow10(k),
                LAMBDA kept, rem:
            LET half == 5 * Pow10(k - 1)
                up   == rem > half \/ (rem = half /\ kept % 2 = 1)
            IN Strip(Sgn(x.m), IF up THEN kept + 1 ELSE kept, -2))))

(***************************************************************************)
(* Values of the program                                                   *)
(***************************************************************************)
\* Optional[...]: None is <<>>, a value v is <<v>>.
None == <<>>

Some(v) == <<v>>

Hundred == Flt(100, 0)

\* dict.get(k): None when the key is absent.
Get(o, k) == IF k \in DOMAIN o THEN Some(o[k]) ELSE None

\* dict.get(k, d)
GetOr(o, k, d) == IF k \in DOMAIN o THEN o[k] ELSE d

EmptyDict == [k \in {} |-> Zero]

\* _pct with the threshold test `x >= 1`.
PctInclusive(x, default) ==
  IF x = None THEN default
  ELSE IF Le(One, x[1]) THEN Div(x[1], Hundred) ELSE x[1]

\* _pct: a rate above 1 is a percentage.
Pct(x, default) ==
  IF x = None THEN default
  ELSE IF Lt(One, x[1]) THEN Div(x[1], Hundred) ELSE x[1]

\* _scenario_defaults: o is the override mapping (`overrides or {}`).
ScenarioDefaults(o, horizon, r) ==
  [revenue0          |-> GetOr(o, "revenue0", Flt(1000, 0)),
   growth            |-> Pct(Get(o, "growth"), Flt(10, -2)),
   growth_decay      |-> Pct(Get(o, "growth_decay"), Flt(2, -2)),
   ebit_margin       |-> Pct(Get(o, "ebit_margin"), Flt(20, -2)),
   tax_rate          |-> Pct(Get(o, "tax_rate"), Flt(21, -2)),
   reinvestment_rate |-> Pct(Get(o, "reinvestment_rate"), Flt(35, -2)),
   terminal_g        |-> Pct(Get(o, "terminal_g"), Flt(2, -2)),
   wacc              |-> Pct(Get(o, "wacc"), r),
   shares_out        |-> GetOr(o, "shares_out", Zero),
   net_debt          |-> GetOr(o, "net_debt", Zero),
   horizon           |-> GetOr(o, "horizon", horizon)]

\* next_growth without the clamp at the terminal rate.
NextGrowthUnclamped(curr, g_terminal, g_decay) ==
  IF Lt(g_terminal, curr) THEN Sub(curr, g_decay) ELSE Add(curr, g_decay)

\* next_growth: one step of growth toward the terminal rate.
NextGrowth(curr, g_terminal, g_decay) ==
  IF Lt(g_terminal, curr)
    THEN Max(g_terminal, Sub(curr, g_decay))
    ELSE Min(g_terminal, Add(curr, g_decay))

\* The floor of a Gordon-growth denominator: max(1e-6, r - g).
Denominator(r, g) == Max(Flt(1, -6), Sub(r, g))

\* A discount factor with the year off by one.
DiscountFactorOffByOne(r, t) == Div(One, Pow(Add(One, r), t - 1))

\* df = 1.0 / ((1.0 + r) ** t)
DiscountFactor(r, t) == Div(One, Pow(Add(One, r), t))

\* A running sum that keeps only the last term.
AccumulateOverwrite(pv_sum, pv_fcf) == pv_fcf

\* pv_sum += pv_fcf
Accumulate(pv_sum, pv_fcf) == Add(pv_sum, pv_fcf)

\* The row one loop iteration of _project_cash_flows appends, given the
\* revenue and cumulative present value so far.
CashFlowRow(s, t, rev, g, pv_sum) ==
  Bind(Mul(rev, Add(One, g)), LAMBDA revenue:
  Bind(Mul(revenue, s.ebit_margin), LAMBDA ebit:
  Bind(Mul(ebit, Sub(One, s.tax_rate)), LAMBDA nopat:
  Bind(Max(Zero, Mul(nopat, s.reinvestment_rate)), LAMBDA reinvest:
  Bind(Sub(nopat, reinvest), LAMBDA fcf:
  Bind(DiscountFactor(s.wacc, t), LAMBDA df:
  Bind(Mul(fcf, df), LAMBDA pv_fcf:
    [year |-> t, revenue |-> revenue, ebit |-> ebit, nopat |-> nopat,
     reinvestment |-> reinvest, fcf |-> fcf, discountFactor |-> df,
     pv_fcf |-> pv_fcf, cum_pv |-> Accumulate(pv_sum, pv_fcf)])))))))

\* Terminal value discounted to the present: next year's NOPAT grown at
\* g_terminal, capitalised at r - g and discounted over N years at r.
PvTerminal(last_nopat, g_terminal, reinv, r, g, N) ==
  Bind(Mul(last_nopat, Add(One, g_terminal)), LAMBDA nopat_next:
  Bind(Mul(nopat_next, Sub(One, reinv)), LAMBDA fcf_next:
  Bind(Div(fcf_next, Denominator(r, g)), LAMBDA tv:
    Div(tv, Pow(Add(One, r), N)))))

\* The sensitivity grid: wacc in range(6, 13), terminal growth in
\* [0.0, 0.5, 1.0, 1.5, 2.0, 2.5], both in percent.
GridWaccShort == [i \in 1..6 |-> 5 + i]

GridWacc == [i \in 1..7 |-> 5 + i]

GridG == <<Zero, Flt(5, -1), One, Flt(15, -1), Flt(2, 0), Flt(25, -1)>>

\* One sensitivity point, as the inner loop body of dcf computes it.
SensitivityCell(w, g_i, last_base, s_base, N) ==
  Bind2(Div(g_i, Hundred), Div(FromInt(w), Hundred), LAMBDA g, rr:
    Bind(PvTerminal(last_base.nopat, s_base.terminal_g,
                    s_base.reinvestment_rate, rr, g, N), LAMBDA pv_tv:
      [wacc |-> w, terminalG |-> g_i,
       value |-> Round2(Add(last_base.cum_pv, pv_tv))]))

\* The sensitivity list: outer loop over wacc, inner loop over terminal g.
SensitivityGrid(last_base, s_base, N) ==
  [i \in 1..(Len(GridWacc) * Len(GridG)) |->
     SensitivityCell(GridWacc[((i - 1) \div Len(GridG)) + 1],
                     GridG[((i - 1) % Len(GridG)) + 1],
                     last_base, s_base, N)]

(***************************************************************************)
(* Requests                                                                *)
(***************************************************************************)
\* Rates a request may carry for a key, in decimal or in percent form.
RateOptions(k) ==
  CASE k = "growth"            -> {Flt(10, 0), Flt(3, -1), Flt(5, -3)}
    [] k = "growth_decay"      -> {Flt(-2, -2), Flt(5, -1), Flt(3, 0)}
    [] k = "ebit_margin"       -> {Flt(-2, -1), Flt(25, -2)}
    [] k = "tax_rate"          -> {Flt(5, -3), Flt(3, -1)}
    [] k = "reinvestment_rate" -> {One, Flt(50, 0)}
    [] k = "terminal_g"        -> {Flt(25, -1), Flt(3, -1), Flt(1, -1)}
    [] k = "wacc"              -> {Flt(-3, 0), Flt(-1, 0), Flt(-5, -1), Zero,
                                   Flt(5, -1), Flt(6, -2), Flt(8, 0)}

RateKeys == {"growth", "growth_decay", "ebit_margin", "tax_rate",
             "reinvestment_rate", "terminal_g", "wacc"}

\* Horizons a request or an override mapping may carry.
Horizons == {0, 1, MaxHorizon}

\* Override mappings with the single key k.
OverridesOf(k) ==
  IF k = "horizon" THEN {[x \in {k} |-> h] : h \in Horizons}
  ELSE IF k = "revenue0" THEN {[x \in {k} |-> Flt(100, 0)]}
  ELSE {[x \in {k} |-> v] : v \in RateOptions(k)}

\* Override mappings with one key of K1 and one of K2.
OverridePairs(K1, K2) ==
  UNION {{a @@ b : a \in OverridesOf(k1), b \in OverridesOf(k2)} :
           k1 \in K1, k2 \in K2}

\* Override mappings of the base scenario: none, one key, or two keys among
\* those that interact (the growth schedule; the discount rate with the
\* horizon and the terminal growth).
BaseOverrides ==
  {EmptyDict}
  \cup UNION {OverridesOf(k) : k \in RateKeys \cup {"revenue0", "horizon"}}
  \cup OverridePairs({"growth"}, {"growth_decay", "terminal_g"})
  \cup OverridePairs({"growth_decay"}, {"terminal_g"})
  \cup OverridePairs({"wacc"}, {"horizon", "terminal_g"})

Requests ==
  [horizon : Horizons,
   wacc    : {None, Some(Flt(12, 0))},
   base    : BaseOverrides,
   bull    : {None, Some([x \in {"growth"} |-> Flt(3, -1)])},
   bear    : {None, Some([x \in {"growth"} |-> Flt(5, -3)])}]

(***************************************************************************)
(* State                                                                   *)
(***************************************************************************)
VARIABLES
  req,             \* the DcfRequest being served
  pc,              \* position of the handler
  err,             \* the exception the call raised, "" if none
  r,               \* dcf: normalized request-level wacc
  N,               \* dcf: clamped request horizon
  s_base,          \* dcf: Some(parameters) once normalized
  s_bull,          \* dcf: None when the bull mapping is omitted
  s_bear,          \* dcf: None when the bear mapping is omitted
  cur,             \* scenario _project_cash_flows is running for
  t,               \* _project_cash_flows: loop year
  rev,             \* _project_cash_flows: revenue so far
  g,               \* _project_cash_flows: growth of the coming year
  pv_sum,          \* _project_cash_flows: cumulative present value
  flows,           \* _project_cash_flows: rows appended so far
  flows_by,        \* dcf: rows per projected scenario
  ev_base,         \* dcf: unrounded base enterprise value
  pv_by_scenario,  \* dcf: rounded enterprise value per scenario
  sensitivity,     \* dcf: the sensitivity list
  result           \* the returned record, None before the return

vars == <<req, pc, err, r, N, s_base, s_bull, s_bear, cur, t, rev, g, pv_sum,
          flows, flows_by, ev_base, pv_by_scenario, sensitivity, result>>

locals == <<cur, t, rev, g, pv_sum, flows>>

dcfvars == <<r, N, s_base, s_bull, s_bear>>

Init ==
  /\ req \in Requests
  /\ pc = "start"
  /\ err = ""
  /\ r = Zero
  /\ N = 0
  /\ s_base = None
  /\ s_bull = None
  /\ s_bear = None
  /\ cur = ""
  /\ t = 0
  /\ rev = Zero
  /\ g = Zero
  /\ pv_sum = Zero
  /\ flows = <<>>
  /\ flows_by = EmptyDict
  /\ ev_base = Zero
  /\ pv_by_scenario = EmptyDict
  /\ sensitivity = <<>>
  /\ result = None

\* The parameters of the scenario being projected.
Scenario(name) ==
  IF name = "base" THEN s_base[1]
  ELSE IF name = "bull" THEN s_bull[1]
  ELSE s_bear[1]

\* Entry of _project_cash_flows(s): the locals before the loop.
Enter(name, s) ==
  /\ cur' = name
  /\ t' = 1
  /\ rev' = s.revenue0
  /\ g' = s.growth
  /\ pv_sum' = Zero
  /\ flows' = <<>>

\* The locals of _project_cash_flows are gone once it returns or raises.
Leave ==
  /\ cur' = ""
  /\ t' = 0
  /\ rev' = Zero
  /\ g' = Zero
  /\ pv_sum' = Zero
  /\ flows' = <<>>

Raise(e) ==
  /\ pc' = "raised"
  /\ err' = e
  /\ Leave

\* dcf, up to the call that projects the base scenario.
Normalize ==
  /\ pc = "start"
  /\ \E rr \in {Pct(req.wacc, Flt(10, -2))},
        NN \in {IF req.horizon > 1 THEN req.horizon ELSE 1} :
       \E sb \in {ScenarioDefaults(req.base, NN, rr)} :
         /\ r' = rr
         /\ N' = NN
         /\ s_base' = Some(sb)
         /\ s_bull' = IF req.bull # None
                        THEN Some(ScenarioDefaults(req.bull[1], NN, rr))
                        ELSE None
         /\ s_bear' = IF req.bear # None
                        THEN Some(ScenarioDefaults(req.bear[1], NN, rr))
                        ELSE None
         /\ Enter("base", sb)
  /\ pc' = "project"
  /\ UNCHANGED <<req, err, flows_by, ev_base, pv_by_scenario, sensitivity,
                 result>>

\* One iteration of the loop of _project_cash_flows.
ProjectYear ==
  /\ pc = "project"
  /\ \E s \in {Scenario(cur)} :
       /\ t <= s.horizon
       /\ IF Pow(Add(One, s.wacc), t).m = 0
            THEN Raise("ZeroDivisionError")
            ELSE \E row \in {CashFlowRow(s, t, rev, g, pv_sum)} :
                   /\ rev' = row.revenue
                   /\ pv_sum' = row.cum_pv
                   /\ flows' = Append(flows, row)
                   /\ g' = NextGrowth(g, s.terminal_g, s.growth_decay)
                   /\ t' = t + 1
                   /\ UNCHANGED <<pc, err, cur>>
  /\ UNCHANGED <<req, dcfvars, flows_by, ev_base, pv_by_scenario,
                 sensitivity, result>>

\* The end of _project_cash_flows and the caller's aggregation of what it
\* returns into an enterprise value.
ProjectReturn ==
  /\ pc = "project"
  /\ \E s \in {Scenario(cur)} :
       /\ t > s.horizon
       /\ IF flows = <<>>
            THEN /\ Raise("IndexError")
                 /\ UNCHANGED <<flows_by, ev_base, pv_by_scenario>>
            ELSE \E last \in {flows[Len(flows)]} :
                 \E pv_tv \in {PvTerminal(last.nopat, s.terminal_g,
                                          s.reinvestment_rate, s.wacc,
                                          s.terminal_g, s.horizon)} :
                 \E ev \in {Add(last.cum_pv, pv_tv)} :
                   /\ flows_by' = (cur :> flows) @@ flows_by
                   /\ pv_by_scenario' = (cur :> Round2(ev)) @@ pv_by_scenario
                   /\ ev_base' = IF cur = "base" THEN ev ELSE ev_base
                   /\ pc' = IF cur = "base" THEN "bull"
                            ELSE IF cur = "bull" THEN "bear" ELSE "sens"
                   /\ Leave
                   /\ UNCHANGED err
  /\ UNCHANGED <<req, dcfvars, sensitivity, result>>

\* dcf: the bull mapping was supplied, project it.
ProjectBull ==
  /\ pc = "bull"
  /\ s_bull # None
  /\ Enter("bull", s_bull[1])
  /\ pc' = "project"
  /\ UNCHANGED <<req, err, dcfvars, flows_by, ev_base, pv_by_scenario,
                 sensitivity, result>>

\* The bull value synthesized from the rounded base value.
SynthesizeBullFromRounded ==
  /\ pc = "bull"
  /\ s_bull = None
  /\ pv_by_scenario' =
       ("bull" :> Round2(Mul(pv_by_scenario["base"], Flt(12, -1))))
       @@ pv_by_scenario
  /\ pc' = "bear"
  /\ UNCHANGED <<req, err, dcfvars, locals, flows_by, ev_base, sensitivity,
                 result>>

\* dcf: the bull mapping was omitted.
SynthesizeBull ==
  /\ pc = "bull"
  /\ s_bull = None
  /\ pv_by_scenario' =
       ("bull" :> Round2(Mul(ev_base, Flt(12, -1)))) @@ pv_by_scenario
  /\ pc' = "bear"
  /\ UNCHANGED <<req, err, dcfvars, locals, flows_by, ev_base, sensitivity,
                 result>>

\* dcf: the bear mapping was supplied, project it.
ProjectBear ==
  /\ pc = "bear"
  /\ s_bear # None
  /\ Enter("bear", s_bear[1])
  /\ pc' = "project"
  /\ UNCHANGED <<req, err, dcfvars, flows_by, ev_base, pv_by_scenario,
                 sensitivity, result>>

\* dcf: the bear mapping was omitted.
SynthesizeBear ==
  /\ pc = "bear"
  /\ s_bear = None
  /\ pv_by_scenario' =
       ("bear" :> Round2(Mul(ev_base, Flt(8, -1)))) @@ pv_by_scenario
  /\ pc' = "sens"
  /\ UNCHANGED <<req, err, dcfvars, locals, flows_by, ev_base, sensitivity,
                 result>>

\* dcf: the sensitivity grid around the base scenario's last row.
Sensitivity ==
  /\ pc = "sens"
  /\ \E last_base \in {flows_by["base"][Len(flows_by["base"])]} :
       sensitivity' = SensitivityGrid(last_base, s_base[1], N)
  /\ pc' = "return"
  /\ UNCHANGED <<req, err, dcfvars, locals, flows_by, ev_base,
                 pv_by_scenario, result>>

\* dcf: the assumptions and the returned record.
Return ==
  /\ pc = "return"
  /\ result' = Some([assumptions  |-> [horizon |-> N,
                                       wacc |-> Round2(Mul(r, Hundred))],
                     pvByScenario |-> pv_by_scenario,
                     sensitivity  |-> sensitivity])
  /\ pc' = "done"
  /\ UNCHANGED <<req, err, dcfvars, locals, flows_by, ev_base,
                 pv_by_scenario, sensitivity>>

Next ==
  \/ Normalize
  \/ ProjectYear
  \/ ProjectReturn
  \/ ProjectBull
  \/ SynthesizeBull
  \/ ProjectBear
  \/ SynthesizeBear
  \/ Sensitivity
  \/ Return

Spec == Init /\ [][Next]_vars

(***************************************************************************)
(* Properties                                                              *)
(***************************************************************************)
Cent == Flt(1, -2)

FAbs(a) == [m |-> Abs(a.m), e |-> a.e]

Projected == DOMAIN flows_by

\* The normalized parameters of a scenario that was projected.
Params(name) == Scenario(name)

\* C1 (as claimed): with the bull (bear) mapping omitted, the returned bull
\* (bear) value is round(1.20 (0.80) times the returned, already rounded,
\* base value, 2).
C1_Original ==
  /\ ("bull" \in DOMAIN pv_by_scenario /\ s_bull = None)
       => pv_by_scenario["bull"]
            = Round2(Mul(Flt(12, -1), pv_by_scenario["base"]))
  /\ ("bear" \in DOMAIN pv_by_scenario /\ s_bear = None)
       => pv_by_scenario["bear"]
            = Round2(Mul(Flt(8, -1), pv_by_scenario["base"]))

\* C1 (amended): with the bull (bear) mapping omitted, the returned bull
\* (bear) value is round(1.2 (0.8) times the unrounded base enterprise
\* value, 2), the returned base value being that value rounded; it is within
\* one cent of the value computed from the rounded base.
C1_Amended ==
  /\ "base" \in DOMAIN pv_by_scenario
       => pv_by_scenario["base"] = Round2(ev_base)
  /\ ("bull" \in DOMAIN pv_by_scenario /\ s_bull = None)
       => /\ pv_by_scenario["bull"] = Round2(Mul(ev_base, Flt(12, -1)))
          /\ Le(FAbs(Sub(pv_by_scenario["bull"],
                         Round2(Mul(Flt(12, -1), pv_by_scenario["base"])))),
                Cent)
  /\ ("bear" \in DOMAIN pv_by_scenario /\ s_bear = None)
       => /\ pv_by_scenario["bear"] = Round2(Mul(ev_base, Flt(8, -1)))
          /\ Le(FAbs(Sub(pv_by_scenario["bear"],
                         Round2(Mul(Flt(8, -1), pv_by_scenario["base"])))),
                Cent)

\* A call returned with both mappings omitted and a base value that has a
\* fraction of a cent.
C1_Witness ==
  /\ result # None
  /\ req.bull = None
  /\ req.bear = None
  /\ ev_base # result[1].pvByScenario["base"]
  /\ result[1].pvByScenario["bull"] = Round2(Mul(ev_base, Flt(12, -1)))

\* A loop iteration whose new growth is used by a later year.
GrowthStep ==
  /\ pc = "project"
  /\ pc' = "project"
  /\ t' = t + 1
  /\ t < Scenario(cur).horizon

Dist(x, y) == FAbs(Sub(x, y))

\* The step from g to g' moves toward terminal_g without passing it.
MonotoneToward ==
  LET gt == Scenario(cur).terminal_g IN
  /\ Le(Dist(g', gt), Dist(g, gt))
  /\ Le(g, gt) => Le(g', gt)
  /\ Le(gt, g) => Le(gt, g')
  /\ g = gt => g' = gt

\* C2 (as claimed): for any growth, terminal_g and growth_decay the growth
\* used from one year to the next never moves away from terminal_g, never
\* crosses it and stays on it once equal.
C2_Original == [][GrowthStep => MonotoneToward]_vars

\* C2 (amended): the same, for a growth_decay that is not negative.
C2_Amended ==
  [][(GrowthStep /\ Le(Zero, Scenario(cur).growth_decay))
        => MonotoneToward]_vars

\* A second year is about to be projected with a growth that a positive
\* decay has brought onto terminal_g from elsewhere.
C2_Witness ==
  /\ pc = "project"
  /\ t >= 2
  /\ t <= Scenario(cur).horizon
  /\ Lt(Zero, Scenario(cur).growth_decay)
  /\ Scenario(cur).growth # Scenario(cur).terminal_g
  /\ g = Scenario(cur).terminal_g

\* C3 (as claimed): for finite inputs no division of the engine has a zero
\* divisor, so the call never raises from its arithmetic.
C3_NoArithmeticError == err # "ZeroDivisionError"

\* C4 (as claimed): every ScenarioParameters the normalizer produces has
\* horizon >= 1.
C4_HorizonAtLeastOne ==
  \A s \in {s_base, s_bull, s_bear} : s # None => s[1].horizon >= 1

\* The value C5 gives for the cell (w, g_i): next-period NOPAT grown at the
\* cell's terminal growth.
ClaimedCell(w, g_i, last_base, s, horizon) ==
  LET gg == Div(g_i, Hundred)
      rr == Div(FromInt(w), Hundred)
  IN Round2(Add(last_base.cum_pv,
                PvTerminal(last_base.nopat, gg, s.reinvestment_rate,
                           rr, gg, horizon)))

\* C5 (as claimed): every sensitivity cell's value is the base scenario's
\* final cum_pv plus the discounted terminal value whose next-period NOPAT
\* is grown at the cell's terminal growth (stated where the base scenario's
\* horizon is the request's, so that `horizon` has one reading).
C5_CellFormula ==
  (sensitivity # <<>> /\ s_base[1].horizon = N)
    => \A i \in 1..Len(sensitivity) :
         sensitivity[i].value
           = ClaimedCell(sensitivity[i].wacc, sensitivity[i].terminalG,
                         flows_by["base"][Len(flows_by["base"])],
                         s_base[1], s_base[1].horizon)

\* The rates of the base mapping, read as rates in decimal form.
Supplied == RateKeys \cap DOMAIN req.base

InUnitRange(x) == Lt(Cent, x) /\ Le(x, One)

NonNegativeFcf(rows) == \A i \in 1..Len(rows) : rows[i].fcf.m >= 0

NonDecreasing(rows) ==
  \A i \in 1..(Len(rows) - 1) : Le(rows[i].cum_pv, rows[i + 1].cum_pv)

RECURSIVE SumPv(_, _)
\* pv_fcf of rows 1..n summed in row order.
SumPv(rows, n) ==
  IF n = 0 THEN Zero ELSE Add(SumPv(rows, n - 1), rows[n].pv_fcf)

RunningSum(rows) == \A i \in 1..Len(rows) : rows[i].cum_pv = SumPv(rows, i)

\* C7 (as claimed): whatever the wacc, a projection whose fcf is never
\* negative has a non-decreasing cum_pv, which is the running sum of pv_fcf.
C7_Original ==
  \A name \in Projected :
    NonNegativeFcf(flows_by[name])
      => NonDecreasing(flows_by[name]) /\ RunningSum(flows_by[name])

\* C7 (amended): cum_pv is the running sum of pv_fcf, and it is
\* non-decreasing when fcf is never negative and wacc > -1.
C7_Amended ==
  \A name \in Projected :
    /\ RunningSum(flows_by[name])
    /\ (NonNegativeFcf(flows_by[name]) /\ Lt(Neg(One), Params(name).wacc))
         => NonDecreasing(flows_by[name])

\* A projection of three years or more with wacc > -1, positive fcf and a
\* cum_pv that grew.
C7_Witness ==
  \E name \in Projected :
    /\ Len(flows_by[name]) >= 3
    /\ Lt(Neg(One), Params(name).wacc)
    /\ \A i \in 1..Len(flows_by[name]) : flows_by[name][i].fcf.m > 0
    /\ Lt(flows_by[name][2].cum_pv, flows_by[name][3].cum_pv)

DiscountFormula(rows, wacc) ==
  \A i \in 1..Len(rows) :
    /\ rows[i].discountFactor = Div(One, Pow(Add(One, wacc), rows[i].year))
    /\ rows[i].discountFactor.m > 0

StrictlyDecreasing(rows) ==
  \A i \in 1..(Len(rows) - 1) :
    Lt(rows[i + 1].discountFactor, rows[i].discountFactor)

\* C8 (as claimed): for wacc > -1 each discountFactor is (1+wacc)^(-year),
\* positive, and strictly smaller than the year before.
C8_Original ==
  \A name \in Projected :
    Lt(Neg(One), Params(name).wacc)
      => /\ DiscountFormula(flows_by[name], Params(name).wacc)
         /\ StrictlyDecreasing(flows_by[name])

\* C8 (amended): for wacc > -1 each discountFactor is (1+wacc)^(-year) and
\* positive; it is strictly smaller than the year before for wacc > 0.
C8_Amended ==
  \A name \in Projected :
    /\ Lt(Neg(One), Params(name).wacc)
         => DiscountFormula(flows_by[name], Params(name).wacc)
    /\ Lt(Zero, Params(name).wacc) => StrictlyDecreasing(flows_by[name])

\* Projections of three years: one with a positive wacc and one with a wacc
\* in (-1, 0].
C8_Witness ==
  /\ \E name \in Projected :
       Len(flows_by[name]) >= 3 /\ Lt(Zero, Params(name).wacc)
  /\ \E name \in Projected :
       /\ Len(flows_by[name]) >= 3
       /\ Lt(Neg(One), Params(name).wacc)
       /\ Le(Params(name).wacc, Zero)

\* C9: the sensitivity list has 42 points, wacc 6..12 ascending and within
\* each wacc terminalG 0.0, 0.5, ..., 2.5 ascending, whatever the request;
\* it is the list returned.
C9_GridShape ==
  /\ sensitivity # <<>>
       => /\ Len(sensitivity) = 42
          /\ \A i \in 1..Len(sensitivity) :
               /\ sensitivity[i].wacc = 6 + ((i - 1) \div 6)
               /\ sensitivity[i].terminalG = Flt(5 * ((i - 1) % 6), -1)
  /\ result # None
       => /\ result[1].sensitivity = sensitivity
          /\ Len(result[1].sensitivity) = 42

\* A call with a request-level wacc and a base override returned its grid.
C9_Witness ==
  /\ result # None
  /\ req.wacc # None
  /\ req.base # EmptyDict
  /\ req.horizon = MaxHorizon
  /\ Len(result[1].sensitivity) = 42

\* C10 (as claimed): the sensitivity point whose wacc and terminalG are the
\* base scenario's has the base enterprise value, also when the base mapping
\* sets its own horizon.
C10_MatchingCell ==
  result # None
    => \A i \in 1..Len(sensitivity) :
         (/\ s_base[1].wacc = Div(FromInt(sensitivity[i].wacc), Hundred)
          /\ s_base[1].terminal_g = Div(sensitivity[i].terminalG, Hundred))
           => sensitivity[i].value = pv_by_scenario["base"]

====
